---------------------------- MODULE Spec2Model ----------------------------
(***************************************************************************)
(* A model of AdvancedTextAnalyzer (src/advanced_analyzer.py).             *)
(*                                                                         *)
(* A Python str is modelled as the sequence of its Unicode code points     *)
(* (ord(c) of every character), so that str.lower(), the `in` operator,    *)
(* str.count(), str.split(), str.strip() and the regular expressions act   *)
(* on characters as they do in the program.  The literals of the source    *)
(* are written as code points, with the source text in the comment beside  *)
(* them.  Category names and prerequisite phrases, whose characters the    *)
(* program never inspects, are transliterated strings.                     *)
(*                                                                         *)
(* A dict is the sequence of its <<key, value>> pairs in insertion order   *)
(* (the iteration order of a Python dict).  A float is kept exact: the     *)
(* readability score is an integer number of tenths, an average is a       *)
(* <<numerator, denominator>> pair.                                        *)
(***************************************************************************)
EXTENDS Integers, Sequences, FiniteSets

VARIABLES
    subject_keywords,   \* self.subject_keywords
    learning_styles,    \* self.learning_styles
    prerequisites_map,  \* the dict built by the latest identify_prerequisites call
    text,               \* the text the caller holds
    op,                 \* the method called last ("new" after construction)
    arg,                \* the subject passed to identify_prerequisites, or ""
    result,             \* what that call returned
    scores,             \* the local `scores` of that call when it returned
    log,                \* the first result of every distinct call made so far
    repeat              \* whether the latest call had been made before

vars == <<subject_keywords, learning_styles, prerequisites_map, text, op, arg,
          result, scores, log, repeat>>

---------------------------------------------------------------------------
(* Characters and the str methods the program calls *)

Min(S) == CHOOSE x \in S : \A y \in S : x <= y

Max(S) == CHOOSE x \in S : \A y \in S : x >= y

\* the first of lo..hi that satisfies P, or 0 when none does
First(lo, hi, P(_)) ==
    IF \E j \in lo..hi : P(j)
    THEN CHOOSE j \in lo..hi : P(j) /\ \A m \in lo..(j - 1) : ~P(m)
    ELSE 0

\* str.isspace() / \s on the characters of the model's texts
IsSpace(c) == c = 32 \/ (c >= 9 /\ c <= 13)

\* \w of a str pattern: letters, digits and the underscore
IsWord(c) ==
    \/ (c >= 1040 /\ c <= 1103) \/ (c >= 97 /\ c <= 122)
    \/ (c >= 65 /\ c <= 90) \/ (c >= 48 /\ c <= 57)
    \/ c = 95 \/ c = 1025 \/ c = 1105

\* the class [а-яa-z] of the word pattern
IsLowerLetter(c) == (c >= 1072 /\ c <= 1103) \/ (c >= 97 /\ c <= 122)

\* one character of str.lower(): A-Z, А-Я and Ё have a lower case
lower_char(c) ==
    IF (c >= 65 /\ c <= 90) \/ (c >= 1040 /\ c <= 1071) THEN c + 32
    ELSE IF c = 1025 THEN 1105 ELSE c

lower(s) == [i \in 1..Len(s) |-> lower_char(s[i])]

\* whether the non-empty k is found in s at position i
\* (for i in 1..Len(s) - Len(k) + 1)
StartsAt(s, k, i) == s[i] = k[1] /\ SubSeq(s, i, i + Len(k) - 1) = k

\* k in s
Contains(s, k) == \E i \in 1..(Len(s) - Len(k) + 1) : StartsAt(s, k, i)

\* The occurrences counted from position `from` on, M being the positions
\* where the substring of length n is found: the leftmost one counts, and the
\* scan goes on behind it.
RECURSIVE GreedyCount(_, _, _)
GreedyCount(M, n, from) ==
    LET rest == {i \in M : i >= from}
    IN  IF rest = {} THEN 0 ELSE 1 + GreedyCount(M, n, Min(rest) + n)

\* s.count(k): the non-overlapping occurrences of k, scanning from the left
\* (occurrences of a single character never overlap)
count(s, k) ==
    LET M == {i \in 1..(Len(s) - Len(k) + 1) : StartsAt(s, k, i)}
    IN  IF Len(k) = 1 THEN Cardinality(M) ELSE GreedyCount(M, Len(k), 1)

RECURSIVE SplitFrom(_, _, _)
SplitFrom(s, c, i) ==
    LET j == First(i, Len(s), LAMBDA x : s[x] = c)
    IN  IF j = 0 THEN <<SubSeq(s, i, Len(s))>>
        ELSE <<SubSeq(s, i, j - 1)>> \o SplitFrom(s, c, j + 1)

\* s.split(c) for a one-character separator: empty fragments are kept
split_on(s, c) == SplitFrom(s, c, 1)

RECURSIVE WordsFrom(_, _)
WordsFrom(s, i) ==
    LET b == First(i, Len(s), LAMBDA x : ~IsSpace(s[x]))
    IN  IF b = 0 THEN <<>>
        ELSE LET stop == First(b, Len(s), LAMBDA x : IsSpace(s[x]))
                 e    == IF stop = 0 THEN Len(s) ELSE stop - 1
             IN  <<SubSeq(s, b, e)>> \o WordsFrom(s, e + 1)

\* s.split(): the maximal runs of non-whitespace characters
split_ws(s) == WordsFrom(s, 1)

\* s.strip()
strip(s) ==
    LET keep == {i \in 1..Len(s) : ~IsSpace(s[i])}
    IN  IF keep = {} THEN <<>> ELSE SubSeq(s, Min(keep), Max(keep))

\* [x for x in xs if keep(x)]
RECURSIVE SelectNonBlank(_, _)
SelectNonBlank(xs, i) ==
    IF i > Len(xs) THEN <<>>
    ELSE (IF strip(xs[i]) # <<>> THEN <<xs[i]>> ELSE <<>>) \o SelectNonBlank(xs, i + 1)

(* dict operations *)
HasKey(d, k) == \E i \in 1..Len(d) : d[i][1] = k

Get(d, k) == d[CHOOSE i \in 1..Len(d) : d[i][1] = k][2]

\* d[k] += n on a defaultdict(int): a missing key is inserted at the end
AddTo(d, k, n) ==
    IF HasKey(d, k)
    THEN [i \in 1..Len(d) |-> IF d[i][1] = k THEN <<k, d[i][2] + n>> ELSE d[i]]
    ELSE Append(d, <<k, n>>)

---------------------------------------------------------------------------
(* __init__: the lexicons *)

\* 'программирование': код, функция, переменная, класс, объект, алгоритм, программа
\* 'математика': уравнение, формула, теорема, доказательство, функция, производная
\* 'физика': энергия, сила, скорость, движение, температура, волна
\* 'химия': реакция, элемент, молекула, атом, соединение, вещество
\* 'биология': клетка, организм, эволюция, ген, белок, ткань
\* 'история': война, революция, империя, государство, культура, событие
\* 'языки': грамматика, слово, предложение, глагол, существительное, текст
SubjectKeywordsLiteral == <<
    <<"programmirovanie",
      <<<<1082, 1086, 1076>>, <<1092, 1091, 1085, 1082, 1094, 1080, 1103>>, <<1087, 1077, 1088, 1077, 1084, 1077, 1085, 1085, 1072, 1103>>, <<1082, 1083, 1072, 1089, 1089>>, <<1086, 1073, 1098, 1077, 1082, 1090>>, <<1072, 1083, 1075, 1086, 1088, 1080, 1090, 1084>>,
        <<1087, 1088, 1086, 1075, 1088, 1072, 1084, 1084, 1072>>>> >>,
    <<"matematika",
      <<<<1091, 1088, 1072, 1074, 1085, 1077, 1085, 1080, 1077>>, <<1092, 1086, 1088, 1084, 1091, 1083, 1072>>, <<1090, 1077, 1086, 1088, 1077, 1084, 1072>>, <<1076, 1086, 1082, 1072, 1079, 1072, 1090, 1077, 1083, 1100, 1089, 1090, 1074, 1086>>, <<1092, 1091, 1085, 1082, 1094, 1080, 1103>>,
        <<1087, 1088, 1086, 1080, 1079, 1074, 1086, 1076, 1085, 1072, 1103>>>> >>,
    <<"fizika",
      <<<<1101, 1085, 1077, 1088, 1075, 1080, 1103>>, <<1089, 1080, 1083, 1072>>, <<1089, 1082, 1086, 1088, 1086, 1089, 1090, 1100>>, <<1076, 1074, 1080, 1078, 1077, 1085, 1080, 1077>>, <<1090, 1077, 1084, 1087, 1077, 1088, 1072, 1090, 1091, 1088, 1072>>,
        <<1074, 1086, 1083, 1085, 1072>>>> >>,
    <<"himiya",
      <<<<1088, 1077, 1072, 1082, 1094, 1080, 1103>>, <<1101, 1083, 1077, 1084, 1077, 1085, 1090>>, <<1084, 1086, 1083, 1077, 1082, 1091, 1083, 1072>>, <<1072, 1090, 1086, 1084>>, <<1089, 1086, 1077, 1076, 1080, 1085, 1077, 1085, 1080, 1077>>,
        <<1074, 1077, 1097, 1077, 1089, 1090, 1074, 1086>>>> >>,
    <<"biologiya",
      <<<<1082, 1083, 1077, 1090, 1082, 1072>>, <<1086, 1088, 1075, 1072, 1085, 1080, 1079, 1084>>, <<1101, 1074, 1086, 1083, 1102, 1094, 1080, 1103>>, <<1075, 1077, 1085>>, <<1073, 1077, 1083, 1086, 1082>>, <<1090, 1082, 1072, 1085, 1100>>>> >>,
    <<"istoriya",
      <<<<1074, 1086, 1081, 1085, 1072>>, <<1088, 1077, 1074, 1086, 1083, 1102, 1094, 1080, 1103>>, <<1080, 1084, 1087, 1077, 1088, 1080, 1103>>, <<1075, 1086, 1089, 1091, 1076, 1072, 1088, 1089, 1090, 1074, 1086>>, <<1082, 1091, 1083, 1100, 1090, 1091, 1088, 1072>>,
        <<1089, 1086, 1073, 1099, 1090, 1080, 1077>>>> >>,
    <<"yazyki",
      <<<<1075, 1088, 1072, 1084, 1084, 1072, 1090, 1080, 1082, 1072>>, <<1089, 1083, 1086, 1074, 1086>>, <<1087, 1088, 1077, 1076, 1083, 1086, 1078, 1077, 1085, 1080, 1077>>, <<1075, 1083, 1072, 1075, 1086, 1083>>,
        <<1089, 1091, 1097, 1077, 1089, 1090, 1074, 1080, 1090, 1077, 1083, 1100, 1085, 1086, 1077>>, <<1090, 1077, 1082, 1089, 1090>>>> >> >>

\* 'визуальный': диаграмма, схема, график, таблица, рисунок, изображение
\* 'аудиальный': объяснение, лекция, дискуссия, обсуждение, диалог
\* 'практический': упражнение, практика, задача, проект, эксперимент, применение
LearningStylesLiteral == <<
    <<"vizualnyj",
      <<<<1076, 1080, 1072, 1075, 1088, 1072, 1084, 1084, 1072>>, <<1089, 1093, 1077, 1084, 1072>>, <<1075, 1088, 1072, 1092, 1080, 1082>>, <<1090, 1072, 1073, 1083, 1080, 1094, 1072>>, <<1088, 1080, 1089, 1091, 1085, 1086, 1082>>,
        <<1080, 1079, 1086, 1073, 1088, 1072, 1078, 1077, 1085, 1080, 1077>>>> >>,
    <<"audialnyj",
      <<<<1086, 1073, 1098, 1103, 1089, 1085, 1077, 1085, 1080, 1077>>, <<1083, 1077, 1082, 1094, 1080, 1103>>, <<1076, 1080, 1089, 1082, 1091, 1089, 1089, 1080, 1103>>, <<1086, 1073, 1089, 1091, 1078, 1076, 1077, 1085, 1080, 1077>>, <<1076, 1080, 1072, 1083, 1086, 1075>>>> >>,
    <<"prakticheskij",
      <<<<1091, 1087, 1088, 1072, 1078, 1085, 1077, 1085, 1080, 1077>>, <<1087, 1088, 1072, 1082, 1090, 1080, 1082, 1072>>, <<1079, 1072, 1076, 1072, 1095, 1072>>, <<1087, 1088, 1086, 1077, 1082, 1090>>, <<1101, 1082, 1089, 1087, 1077, 1088, 1080, 1084, 1077, 1085, 1090>>,
        <<1087, 1088, 1080, 1084, 1077, 1085, 1077, 1085, 1080, 1077>>>> >> >>

---------------------------------------------------------------------------
(* detect_subject *)

\* for keyword in keywords: if keyword in text_lower: scores[subject] += count
RECURSIVE SubjectKeywordLoop(_, _, _, _, _)
SubjectKeywordLoop(text_lower, subject, keywords, j, sc) ==
    IF j > Len(keywords) THEN sc
    ELSE SubjectKeywordLoop(text_lower, subject, keywords, j + 1,
            IF Contains(text_lower, keywords[j])
            THEN AddTo(sc, subject, count(text_lower, keywords[j]))
            ELSE sc)

\* for subject, keywords in self.subject_keywords.items()
RECURSIVE SubjectLoop(_, _, _, _)
SubjectLoop(text_lower, lexicon, i, sc) ==
    IF i > Len(lexicon) THEN sc
    ELSE SubjectLoop(text_lower, lexicon, i + 1,
            SubjectKeywordLoop(text_lower, lexicon[i][1], lexicon[i][2], 1, sc))

subject_scores(t, lexicon) == SubjectLoop(lower(t), lexicon, 1, <<>>)

\* a plausible slip: >= keeps the last of the maximal keys
RECURSIVE MaxKeyLastFrom(_, _, _)
MaxKeyLastFrom(d, i, best) ==
    IF i > Len(d) THEN d[best][1]
    ELSE MaxKeyLastFrom(d, i + 1, IF d[i][2] >= d[best][2] THEN i ELSE best)

MaxKeyLast(d) == MaxKeyLastFrom(d, 2, 1)

RECURSIVE MaxKeyFrom(_, _, _)
MaxKeyFrom(d, i, best) ==
    IF i > Len(d) THEN d[best][1]
    ELSE MaxKeyFrom(d, i + 1, IF d[i][2] > d[best][2] THEN i ELSE best)

\* max(d, key=d.get): the first key, in iteration order, of maximal value
MaxKey(d) == MaxKeyFrom(d, 2, 1)

\* 'общий'
detect_subject(t, lexicon) ==
    LET sc == subject_scores(t, lexicon)
    IN  IF sc = <<>> THEN "obshchij" ELSE MaxKey(sc)

---------------------------------------------------------------------------
(* suggest_learning_style *)

\* for keyword in keywords: if keyword in text_lower: scores[style] += 1
RECURSIVE StyleKeywordLoop(_, _, _, _, _)
StyleKeywordLoop(text_lower, style, keywords, j, sc) ==
    IF j > Len(keywords) THEN sc
    ELSE StyleKeywordLoop(text_lower, style, keywords, j + 1,
            IF Contains(text_lower, keywords[j]) THEN AddTo(sc, style, 1) ELSE sc)

\* for style, keywords in self.learning_styles.items()
RECURSIVE StyleLoop(_, _, _, _)
StyleLoop(text_lower, lexicon, i, sc) ==
    IF i > Len(lexicon) THEN sc
    ELSE StyleLoop(text_lower, lexicon, i + 1,
            StyleKeywordLoop(text_lower, lexicon[i][1], lexicon[i][2], 1, sc))

\* Where a match of \n\s*[markers]\s that starts at i ends, or 0 when none
\* starts there.  \s* is greedy, and a marker is no whitespace, so the match
\* runs over all the whitespace that follows the line break.
BulletMatchEnd(s, markers, i) ==
    IF s[i] # 10 THEN 0
    ELSE LET j == First(i + 1, Len(s), LAMBDA x : ~IsSpace(s[x]))
         IN  IF j # 0 /\ s[j] \in markers /\ j < Len(s) /\ IsSpace(s[j + 1])
             THEN j + 1 ELSE 0

\* the leftmost match from i on counts, and the scan goes on behind it
RECURSIVE BulletCountFrom(_, _, _)
BulletCountFrom(s, markers, i) ==
    LET b == First(i, Len(s), LAMBDA x : BulletMatchEnd(s, markers, x) > 0)
    IN  IF b = 0 THEN 0
        ELSE 1 + BulletCountFrom(s, markers, BulletMatchEnd(s, markers, b) + 1)

\* len(re.findall(r'\n\s*[markers]\s', s)): non-overlapping, leftmost first
BulletCount(s, markers) == BulletCountFrom(s, markers, 1)

\* text.count('```') > 0 or text.count('def ') > 0
HasCodeMarker(t) == count(t, <<96, 96, 96>>) > 0 \/ count(t, <<100, 101, 102, 32>>) > 0

\* len(re.findall(r'\n\s*[-*]\s', text)) > 3
HasBulletList(t) == BulletCount(t, {45, 42}) > 3

style_scores(t, lexicon) ==
    LET kw   == StyleLoop(lower(t), lexicon, 1, <<>>)
        code == IF HasCodeMarker(t) THEN AddTo(kw, "prakticheskij", 5) ELSE kw
    IN  IF HasBulletList(t) THEN AddTo(code, "vizualnyj", 3) ELSE code

\* x goes behind every item whose value is not smaller: equal values keep
\* the order they had
RECURSIVE InsertDesc(_, _, _)
InsertDesc(sorted, x, i) ==
    IF i > Len(sorted) THEN Append(sorted, x)
    ELSE IF sorted[i][2] < x[2]
         THEN SubSeq(sorted, 1, i - 1) \o <<x>> \o SubSeq(sorted, i, Len(sorted))
    ELSE InsertDesc(sorted, x, i + 1)

RECURSIVE SortDescFrom(_, _, _)
SortDescFrom(d, i, sorted) ==
    IF i > Len(d) THEN sorted
    ELSE SortDescFrom(d, i + 1, InsertDesc(sorted, d[i], 1))

\* the items as the dict holds them, unsorted
SortDescNone(d) == d

\* sorted(d.items(), key=lambda x: x[1], reverse=True): a stable sort
SortDesc(d) == SortDescFrom(d, 1, <<>>)

\* xs[:n]
Take(xs, n) == SubSeq(xs, 1, IF Len(xs) < n THEN Len(xs) ELSE n)

Keys(d) == [i \in 1..Len(d) |-> d[i][1]]

\* ['практический', 'визуальный', 'аудиальный']
DefaultStyles == <<"prakticheskij", "vizualnyj", "audialnyj">>

\* lines 70-75: the ranking of the scores
RankStyles(sc) ==
    LET suggested_styles == SortDesc(sc)
    IN  IF suggested_styles = <<>> THEN DefaultStyles
        ELSE Keys(Take(suggested_styles, 2))

suggest_learning_style(t, lexicon) == RankStyles(style_scores(t, lexicon))

---------------------------------------------------------------------------
(* Returned values and exceptions *)

Return(v) == [raised |-> FALSE, value |-> v]

Raise(e) == [raised |-> TRUE, value |-> e]

\* a / den raises ZeroDivisionError when den is 0
ZeroDivision(den) == den = 0

---------------------------------------------------------------------------
(* calculate_readability *)

RECURSIVE SumLen(_, _)
SumLen(xs, i) == IF i > Len(xs) THEN 0 ELSE Len(xs[i]) + SumLen(xs, i + 1)

\* [s for s in text.split('.') if s.strip()]
Sentences(t) == SelectNonBlank(split_on(t, 46), 1)

\* round(x, 1) of the exact quotient n / d, in tenths, where n / d is the
\* score times ten: ties go to the even tenth
RoundHalfEven(n, d) ==
    LET q == n \div d
        r == n % d
    IN  IF 2 * r > d THEN q + 1
        ELSE IF 2 * r = d THEN q + (q % 2)
        ELSE q

\* 206.835 - 1.015 * (W / S) - 84.6 * ((L / W) / 5), clamped to 0..100 and
\* rounded to one decimal, in tenths.  With every term over 200 * S * W the
\* score is (41367*S*W - 203*W*W - 3384*L*S) / (200*S*W).
ReadabilityTenths(W, S, L) ==
    LET n == 41367 * S * W - 203 * W * W - 3384 * L * S
        d == 200 * S * W
    IN  IF n <= 0 THEN 0
        ELSE IF n >= 100 * d THEN 1000
        ELSE RoundHalfEven(10 * n, d)

\* a plausible slip: only the empty word list is guarded
ReadabilityGuardWordsOnly(sentences, words) == words = <<>>

\* if not sentences or not words
ReadabilityGuard(sentences, words) == sentences = <<>> \/ words = <<>>

calculate_readability(t) ==
    LET sentences == Sentences(t)
        words     == split_ws(t)
    IN  IF ReadabilityGuard(sentences, words) THEN Return(500)
        ELSE IF ZeroDivision(Len(sentences)) \/ ZeroDivision(Len(words))
             THEN Raise("ZeroDivisionError")
        ELSE Return(ReadabilityTenths(Len(words), Len(sentences), SumLen(words, 1)))

---------------------------------------------------------------------------
(* calculate_engagement_score *)

\* интересно, важно, удивительно, представьте, давайте, почему, как
engaging_words == <<<<1080, 1085, 1090, 1077, 1088, 1077, 1089, 1085, 1086>>, <<1074, 1072, 1078, 1085, 1086>>, <<1091, 1076, 1080, 1074, 1080, 1090, 1077, 1083, 1100, 1085, 1086>>, <<1087, 1088, 1077, 1076, 1089, 1090, 1072, 1074, 1100, 1090, 1077>>,
                    <<1076, 1072, 1074, 1072, 1081, 1090, 1077>>, <<1087, 1086, 1095, 1077, 1084, 1091>>, <<1082, 1072, 1082>>>>

\* sum(2 for word in engaging_words if word in text_lower)
EngagingBonus(text_lower) ==
    2 * Cardinality({i \in 1..Len(engaging_words) :
                        Contains(text_lower, engaging_words[i])})

\* 'например' in text_lower or 'пример' in text_lower
HasExample(text_lower) ==
    Contains(text_lower, <<1085, 1072, 1087, 1088, 1080, 1084, 1077, 1088>>) \/ Contains(text_lower, <<1087, 1088, 1080, 1084, 1077, 1088>>)

RECURSIVE SumWords(_, _)
SumWords(xs, i) ==
    IF i > Len(xs) THEN 0 ELSE Len(split_ws(xs[i])) + SumWords(xs, i + 1)

\* a plausible slip: the result is not clamped
ClampNone(score) == score

\* max(0, min(100, score))
Clamp(score) ==
    LET m == IF score > 100 THEN 100 ELSE score
    IN  IF m < 0 THEN 0 ELSE m

\* a plausible slip: every occurrence of an engaging word counts
EngagementRawPerOccurrence(t) ==
    LET text_lower == lower(t)
        RECURSIVE occ(_)
        occ(i) == IF i > Len(engaging_words) THEN 0
                  ELSE count(text_lower, engaging_words[i]) + occ(i + 1)
    IN  50 + 2 * occ(1)
           + (IF HasExample(text_lower) THEN 10 ELSE 0)
           + count(t, <<63>>) * 3
           + BulletCount(t, {45, 42, 8226}) * 2

\* the score before the sentence-length penalty
EngagementRaw(t) ==
    LET text_lower == lower(t)
    IN  50 + EngagingBonus(text_lower)
           + (IF HasExample(text_lower) THEN 10 ELSE 0)
           + count(t, <<63>>) * 3
           + BulletCount(t, {45, 42, 8226}) * 2

calculate_engagement_score(t) ==
    LET score     == EngagementRaw(t)
        sentences == split_on(t, 46)
    IN  IF sentences = <<>> THEN Return(Clamp(score))
        ELSE IF ZeroDivision(Len(sentences)) THEN Raise("ZeroDivisionError")
        \* avg_length > 25, with avg_length = sum / len
        ELSE IF SumWords(sentences, 1) > 25 * Len(sentences)
             THEN Return(Clamp(score - 10))
        ELSE Return(Clamp(score))

---------------------------------------------------------------------------
(* analyze_comprehensive: words and keywords *)

\* Where a match of \b[а-яa-z]+\b that starts at i ends, or 0 when none
\* starts there.  The class holds word characters only, so \b before the
\* match asks for no word character at i - 1, and \b after it can hold only
\* at the end of the whole run of class characters.
WordMatchEnd(s, i) ==
    IF ~IsLowerLetter(s[i]) THEN 0
    ELSE IF i > 1 /\ IsWord(s[i - 1]) THEN 0
    ELSE LET stop == First(i + 1, Len(s), LAMBDA x : ~IsLowerLetter(s[x]))
             m    == IF stop = 0 THEN Len(s) ELSE stop - 1
         IN  IF m = Len(s) \/ ~IsWord(s[m + 1]) THEN m ELSE 0

\* the leftmost match from i on is taken, and the scan goes on behind it
RECURSIVE FindWordsFrom(_, _)
FindWordsFrom(s, i) ==
    LET b == First(i, Len(s), LAMBDA x : WordMatchEnd(s, x) > 0)
    IN  IF b = 0 THEN <<>>
        ELSE <<SubSeq(s, b, WordMatchEnd(s, b))>>
             \o FindWordsFrom(s, WordMatchEnd(s, b) + 1)

\* re.findall(r'\b[а-яa-z]+\b', text.lower())
Words(t) == FindWordsFrom(lower(t), 1)

\* {'это', 'как', 'что', 'для', 'или', 'который', 'the', 'is', 'and', 'or'}
stop_words == {<<1101, 1090, 1086>>, <<1082, 1072, 1082>>, <<1095, 1090, 1086>>, <<1076, 1083, 1103>>, <<1080, 1083, 1080>>, <<1082, 1086, 1090, 1086, 1088, 1099, 1081>>, <<116, 104, 101>>,
               <<105, 115>>, <<97, 110, 100>>, <<111, 114>>}

\* w not in stop_words and len(w) > 3
IsKeywordCandidate(w) == w \notin stop_words /\ Len(w) > 3

RECURSIVE FilterWords(_, _)
FilterWords(ws, i) ==
    IF i > Len(ws) THEN <<>>
    ELSE (IF IsKeywordCandidate(ws[i]) THEN <<ws[i]>> ELSE <<>>)
         \o FilterWords(ws, i + 1)

\* Counter(xs): the counts, keyed in the order of first occurrence
RECURSIVE CounterFrom(_, _, _)
CounterFrom(xs, i, c) ==
    IF i > Len(xs) THEN c ELSE CounterFrom(xs, i + 1, AddTo(c, xs[i], 1))

\* a plausible slip: the counts are not ordered before the cut
MostCommonUnsorted(c, n) == Take(c, n)

\* Counter.most_common(n): the n items of highest count, highest first,
\* items of equal count in the order they were first counted
MostCommon(c, n) == Take(SortDesc(c), n)

\* [word for word, count in Counter(filtered_words).most_common(10)]
Keywords(t) == Keys(MostCommon(CounterFrom(FilterWords(Words(t), 1), 1, <<>>), 10))

---------------------------------------------------------------------------
(* generate_flashcards *)

\* [s.strip() for s in text.split('.') if s.strip()]
RECURSIVE StrippedSentences(_, _)
StrippedSentences(xs, i) ==
    IF i > Len(xs) THEN <<>>
    ELSE (IF strip(xs[i]) # <<>> THEN <<strip(xs[i])>> ELSE <<>>)
         \o StrippedSentences(xs, i + 1)

\* a plausible slip: the keyword is looked for in the sentence as written
SentenceHasKeywordCaseSensitive(sentence, keyword) == Contains(sentence, keyword)

\* keyword.lower() in sentence.lower()
SentenceHasKeyword(sentence, keyword) == Contains(lower(sentence), lower(keyword))

\* for sentence in sentences: if ...: append; break
RECURSIVE CardFor(_, _, _)
CardFor(keyword, sentences, j) ==
    IF j > Len(sentences) THEN <<>>
    ELSE IF SentenceHasKeyword(sentences[j], keyword)
         \* 'Что такое {keyword}?'
         THEN << [front   |-> <<1063, 1090, 1086, 32, 1090, 1072, 1082, 1086, 1077, 32>> \o keyword \o <<63>>,
                  back    |-> sentences[j],
                  keyword |-> keyword] >>
    ELSE CardFor(keyword, sentences, j + 1)

\* for keyword in keywords[:5]
RECURSIVE CardsFrom(_, _, _)
CardsFrom(keywords, sentences, i) ==
    IF i > Len(keywords) THEN <<>>
    ELSE CardFor(keywords[i], sentences, 1) \o CardsFrom(keywords, sentences, i + 1)

generate_flashcards(t, keywords) ==
    CardsFrom(Take(keywords, 5), StrippedSentences(split_on(t, 46), 1), 1)

---------------------------------------------------------------------------
(* identify_prerequisites *)

\* Every phrase is the tuple of its parts: a literal is one part, the
\* f-string 'Средний уровень знаний в {subject}' is two.
\* 'программирование': Базовая компьютерная грамотность, Логическое мышление,
\*                     Английский язык (базовый)
\* 'математика': Арифметика, Базовая алгебра, Логическое мышление
\* 'физика': Математика (алгебра), Базовые понятия о природе
\* 'химия': Математика, Базовые понятия о веществах
\* 'биология': Общие знания о живых организмах
\* 'история': Хронологическое мышление, География (базовая)
\* 'языки': Родной язык (хорошее знание), Базовая грамматика
PrerequisitesMapLiteral == <<
    <<"programmirovanie", << <<"Bazovaya kompyuternaya gramotnost">>,
                             <<"Logicheskoe myshlenie">>,
                             <<"Anglijskij yazyk (bazovyj)">> >> >>,
    <<"matematika", << <<"Arifmetika">>, <<"Bazovaya algebra">>,
                       <<"Logicheskoe myshlenie">> >> >>,
    <<"fizika", << <<"Matematika (algebra)">>,
                   <<"Bazovye ponyatiya o prirode">> >> >>,
    <<"himiya", << <<"Matematika">>, <<"Bazovye ponyatiya o veshchestvah">> >> >>,
    <<"biologiya", << <<"Obshchie znaniya o zhivyh organizmah">> >> >>,
    <<"istoriya", << <<"Hronologicheskoe myshlenie">>,
                     <<"Geografiya (bazovaya)">> >> >>,
    <<"yazyki", << <<"Rodnoj yazyk (horoshee znanie)">>,
                   <<"Bazovaya grammatika">> >> >> >>

\* ['Базовая грамотность', 'Желание учиться']
DefaultPrerequisites == << <<"Bazovaya gramotnost">>, <<"Zhelanie uchitsya">> >>

\* a plausible slip: the dict is built once and kept between the calls
KeptPrerequisitesMap(previous) ==
    IF previous = <<>> THEN PrerequisitesMapLiteral ELSE previous

\* prerequisites_map = {...}: a local, built anew by every call whatever
\* the previous call left
FreshPrerequisitesMap(previous) == PrerequisitesMapLiteral

\* продвинутый, сложный, advanced, комплексный, интегрированный
advanced_keywords == <<<<1087, 1088, 1086, 1076, 1074, 1080, 1085, 1091, 1090, 1099, 1081>>, <<1089, 1083, 1086, 1078, 1085, 1099, 1081>>, <<97, 100, 118, 97, 110, 99, 101, 100>>, <<1082, 1086, 1084, 1087, 1083, 1077, 1082, 1089, 1085, 1099, 1081>>,
                       <<1080, 1085, 1090, 1077, 1075, 1088, 1080, 1088, 1086, 1074, 1072, 1085, 1085, 1099, 1081>>>>

\* any(keyword in text_lower for keyword in advanced_keywords)
IsAdvanced(t) ==
    \E i \in 1..Len(advanced_keywords) : Contains(lower(t), advanced_keywords[i])

\* f'Средний уровень знаний в {subject}'
IntermediateItem(subject) == <<"Srednij uroven znanij v ", subject>>

\* d[k] = v for a key the dict holds
SetKey(d, k, v) == [i \in 1..Len(d) |-> IF d[i][1] = k THEN <<k, v>> ELSE d[i]]

\* The returned list and the dict the call leaves.  base_prerequisites is
\* the dict's own list when the subject is a key, so insert(0, ...) changes
\* the dict too; the default list is a new list.
identify_prerequisites(t, subject, previous) ==
    LET map  == FreshPrerequisitesMap(previous)
        base == IF HasKey(map, subject) THEN Get(map, subject)
                ELSE DefaultPrerequisites
        out  == IF IsAdvanced(t) THEN <<IntermediateItem(subject)>> \o base
                ELSE base
    IN  [value |-> out,
         map   |-> IF HasKey(map, subject) THEN SetKey(map, subject, out) ELSE map]

---------------------------------------------------------------------------
(* generate_study_notes_template, _interpret_readability *)

\* The fixed parts are named by their first words.
generate_study_notes_template(t, keywords) ==
    [title                |-> "Konspekt po materialu",
     date                 |-> "Data izucheniya: __________",
     key_points           |-> <<"1. ___", "2. ___", "3. ___", "4. ___", "5. ___">>,
     keywords_to_remember |-> Take(keywords, 8),
     questions_to_answer  |-> <<"Q: Kakova osnovnaya ideya?", "A: ___", "",
                                "Q: Kak eto primenyaetsya na praktike?", "A: ___", "",
                                "Q: S chem eto svyazano?", "A: ___">>,
     summary_space        |-> "Kratkoe rezyume svoimi slovami:",
     reflection           |-> "Chto ya uznal novogo?"]

\* score >= 70, score >= 50, with the score in tenths
interpret_readability(score) ==
    IF score >= 700
    THEN [level          |-> "Lyogkij",
          description    |-> "Tekst legko chitaetsya i ponimaetsya",
          recommendation |-> "Podhodit dlya samostoyatelnogo izucheniya"]
    ELSE IF score >= 500
    THEN [level          |-> "Srednij",
          description    |-> "Trebuet vnimaniya i koncentracii",
          recommendation |-> "Delajte zametki po hodu chteniya"]
    ELSE [level          |-> "Slozhnyj",
          description    |-> "Slozhnyj tekst, trebuet glubokogo izucheniya",
          recommendation |-> "Chitajte po chastyam, ispolzujte dopolnitelnye istochniki"]

---------------------------------------------------------------------------
(* analyze_comprehensive *)

\* max(len(sentences), 1)
SentenceDivisor(n) == IF n > 1 THEN n ELSE 1

\* The returned report and the prerequisites dict the call leaves; an
\* exception of a scorer leaves the method before identify_prerequisites.
analyze_comprehensive(t, subjects, styles, previous) ==
    LET words          == Words(t)
        sentences      == Sentences(t)
        keywords       == Keywords(t)
        subject        == detect_subject(t, subjects)
        readability    == calculate_readability(t)
        engagement     == calculate_engagement_score(t)
        prerequisites  == identify_prerequisites(t, subject, previous)
        divisor        == SentenceDivisor(Len(sentences))
    IN  IF readability.raised THEN [ret |-> readability, map |-> previous]
        ELSE IF engagement.raised THEN [ret |-> engagement, map |-> previous]
        ELSE IF ZeroDivision(divisor)
             THEN [ret |-> Raise("ZeroDivisionError"), map |-> prerequisites.map]
        ELSE [ret |-> Return(
                [basic_stats |->
                    [word_count          |-> Len(words),
                     sentence_count      |-> Len(sentences),
                     unique_words        |-> Cardinality({words[i] : i \in 1..Len(words)}),
                     avg_sentence_length |-> <<Len(words), divisor>>],
                 subject           |-> subject,
                 keywords          |-> keywords,
                 learning_styles   |-> suggest_learning_style(t, styles),
                 readability_score |-> readability.value,
                 engagement_score  |-> engagement.value,
                 prerequisites     |-> prerequisites.value,
                 flashcards        |-> generate_flashcards(t, keywords),
                 notes_template    |-> generate_study_notes_template(t, keywords),
                 difficulty_interpretation |->
                     interpret_readability(readability.value)]),
              map |-> prerequisites.map]

---------------------------------------------------------------------------
(* Inputs *)

MaxSubjectAtoms == 3
MaxStyleAtoms == 2
MaxScoreAtoms == 2
MaxReportAtoms == 2
MaxCalls == 3

\* the texts made of at most n of the given pieces
RECURSIVE TextsOf(_, _)
TextsOf(atoms, n) ==
    IF n = 0 THEN {<<>>}
    ELSE LET shorter == TextsOf(atoms, n - 1)
         IN  shorter \cup {t \o a : t \in shorter, a \in atoms}

\* the texts that open with one of the given openings
WithOpening(openings, texts) == {o \o t : o \in openings, t \in texts}

\* 'код ', 'Функция ', 'теорема ', 'сила ', 'ген', 'текст'
SubjectAtoms == {<<1082, 1086, 1076, 32>>, <<1060, 1091, 1085, 1082, 1094, 1080, 1103, 32>>, <<1090, 1077, 1086, 1088, 1077, 1084, 1072, 32>>, <<1089, 1080, 1083, 1072, 32>>, <<1075, 1077, 1085>>, <<1090, 1077, 1082, 1089, 1090>>}

SubjectTexts == TextsOf(SubjectAtoms, MaxSubjectAtoms)

\* nothing; three bullet lines, the first of them the first line of the
\* text: '- a\n- b\n  * c'; a plain line and three bullet lines:
\* 'x\n- a\n- b\n  * c'
StyleOpenings == {<<>>, <<45, 32, 97, 10, 45, 32, 98, 10, 32, 32, 42, 32, 99>>, <<120, 10, 45, 32, 97, 10, 45, 32, 98, 10, 32, 32, 42, 32, 99>>}

\* '\n- d', '\n-', 'схема', ' Лекция', 'задача', 'def f'
StyleAtoms == {<<10, 45, 32, 100>>, <<10, 45>>, <<1089, 1093, 1077, 1084, 1072>>, <<32, 1051, 1077, 1082, 1094, 1080, 1103>>, <<1079, 1072, 1076, 1072, 1095, 1072>>, <<100, 101, 102, 32, 102>>}

StyleTexts == WithOpening(StyleOpenings, TextsOf(StyleAtoms, MaxStyleAtoms))

\* nothing; a sentence of twenty-six words
ScoreOpenings == {<<>>, <<97, 32, 97, 32, 97, 32, 97, 32, 97, 32, 97, 32, 97, 32, 97, 32, 97, 32, 97, 32, 97, 32, 97, 32, 97, 32, 97, 32, 97, 32, 97, 32, 97, 32, 97, 32, 97, 32, 97, 32, 97, 32, 97, 32, 97, 32, 97, 32, 97, 32, 97, 32>>}

\* 'Как важно, как. ', '?? ', nine '?', 'Например: ', '\n• x',
\* 'электрификация ', 'понимание текста. '
ScoreAtoms == {<<1050, 1072, 1082, 32, 1074, 1072, 1078, 1085, 1086, 44, 32, 1082, 1072, 1082, 46, 32>>, <<63, 63, 32>>, <<63, 63, 63, 63, 63, 63, 63, 63, 63>>, <<1053, 1072, 1087, 1088, 1080, 1084, 1077, 1088, 58, 32>>,
               <<10, 8226, 32, 120>>, <<1101, 1083, 1077, 1082, 1090, 1088, 1080, 1092, 1080, 1082, 1072, 1094, 1080, 1103, 32>>, <<1087, 1086, 1085, 1080, 1084, 1072, 1085, 1080, 1077, 32, 1090, 1077, 1082, 1089, 1090, 1072, 46, 32>>}

ScoreTexts == WithOpening(ScoreOpenings, TextsOf(ScoreAtoms, MaxScoreAtoms))

\* nothing; a sentence of nine keywords:
\* 'able bake cave dome echo fish gold hill iron. '
ReportOpenings == {<<>>, <<97, 98, 108, 101, 32, 98, 97, 107, 101, 32, 99, 97, 118, 101, 32, 100, 111, 109, 101, 32, 101, 99, 104, 111, 32, 102, 105, 115, 104, 32, 103, 111, 108, 100, 32, 104, 105, 108, 108, 32, 105, 114, 111, 110, 46, 32>>}

\* '.', ' ', 'Jazz kiwi ', 'iron Iron the что cat ', 'lime1 mint. ',
\* 'сложный код это Функция'
ReportAtoms == {<<46>>, <<32>>, <<74, 97, 122, 122, 32, 107, 105, 119, 105, 32>>, <<105, 114, 111, 110, 32, 73, 114, 111, 110, 32, 116, 104, 101, 32, 1095, 1090, 1086, 32, 99, 97, 116, 32>>,
                <<108, 105, 109, 101, 49, 32, 109, 105, 110, 116, 46, 32>>, <<1089, 1083, 1086, 1078, 1085, 1099, 1081, 32, 1082, 1086, 1076, 32, 1101, 1090, 1086, 32, 1060, 1091, 1085, 1082, 1094, 1080, 1103>>}

ReportTexts == WithOpening(ReportOpenings, TextsOf(ReportAtoms, MaxReportAtoms))

\* 'Сложный код.', 'код и теорема'
SessionTexts == {<<1057, 1083, 1086, 1078, 1085, 1099, 1081, 32, 1082, 1086, 1076, 46>>, <<1082, 1086, 1076, 32, 1080, 32, 1090, 1077, 1086, 1088, 1077, 1084, 1072>>}

\* the subjects a caller passes to identify_prerequisites: two keys of the
\* dict and one that is no key
SessionSubjects == {"programmirovanie", "matematika", "obshchij"}

---------------------------------------------------------------------------
(* The analyzer and its caller *)

NoResult == Return("none")

InitWith(texts) ==
    /\ subject_keywords = SubjectKeywordsLiteral
    /\ learning_styles = LearningStylesLiteral
    /\ prerequisites_map = <<>>
    /\ text \in texts
    /\ op = "new"
    /\ arg = ""
    /\ result = NoResult
    /\ scores = <<>>
    /\ log = <<>>
    /\ repeat = FALSE

Logged(o, t, a) == <<o, t, a>> \in DOMAIN log

\* the caller makes at most MaxCalls distinct calls, and repeats them freely
MayCall(o, t, a) == Logged(o, t, a) \/ Cardinality(DOMAIN log) < MaxCalls

Called(o, a, r) ==
    /\ op' = o
    /\ arg' = a
    /\ result' = r
    /\ repeat' = Logged(o, text, a)
    /\ log' = IF Logged(o, text, a) THEN log
              ELSE [k \in DOMAIN log \cup {<<o, text, a>>} |->
                        IF k = <<o, text, a>> THEN r ELSE log[k]]
    /\ UNCHANGED text

\* the caller turns to another text
Receive(t) ==
    /\ t # text
    /\ text' = t
    /\ op' = "new"
    /\ arg' = ""
    /\ result' = NoResult
    /\ scores' = <<>>
    /\ repeat' = FALSE
    /\ UNCHANGED <<subject_keywords, learning_styles, prerequisites_map, log>>

\* a plausible slip: the winning subject's entry is taken out of the lexicon
DetectSubjectPopping ==
    /\ MayCall("detect_subject", text, "")
    /\ \E winner \in {detect_subject(text, subject_keywords)} :
          /\ Called("detect_subject", "", Return(winner))
          /\ subject_keywords' =
                SelectSeq(subject_keywords, LAMBDA entry : entry[1] # winner)
    /\ scores' = <<>>
    /\ UNCHANGED <<learning_styles, prerequisites_map>>

\* (a value bound by \E r \in {e} is e, computed once)
DetectSubject ==
    /\ MayCall("detect_subject", text, "")
    /\ \E r \in {detect_subject(text, subject_keywords)} :
          Called("detect_subject", "", Return(r))
    /\ scores' = <<>>
    /\ UNCHANGED <<subject_keywords, learning_styles, prerequisites_map>>

SuggestLearningStyle ==
    /\ MayCall("suggest_learning_style", text, "")
    /\ \E sc \in {style_scores(text, learning_styles)} :
          /\ \E r \in {RankStyles(sc)} :
                Called("suggest_learning_style", "", Return(r))
          /\ scores' = sc
    /\ UNCHANGED <<subject_keywords, learning_styles, prerequisites_map>>

CalculateReadability ==
    /\ MayCall("calculate_readability", text, "")
    /\ \E r \in {calculate_readability(text)} :
          Called("calculate_readability", "", r)
    /\ scores' = <<>>
    /\ UNCHANGED <<subject_keywords, learning_styles, prerequisites_map>>

CalculateEngagementScore ==
    /\ MayCall("calculate_engagement_score", text, "")
    /\ \E r \in {calculate_engagement_score(text)} :
          Called("calculate_engagement_score", "", r)
    /\ scores' = <<>>
    /\ UNCHANGED <<subject_keywords, learning_styles, prerequisites_map>>

IdentifyPrerequisites(subject) ==
    /\ MayCall("identify_prerequisites", text, subject)
    /\ \E r \in {identify_prerequisites(text, subject, prerequisites_map)} :
          /\ Called("identify_prerequisites", subject, Return(r.value))
          /\ prerequisites_map' = r.map
    /\ scores' = <<>>
    /\ UNCHANGED <<subject_keywords, learning_styles>>

AnalyzeComprehensive ==
    /\ MayCall("analyze_comprehensive", text, "")
    /\ \E r \in {analyze_comprehensive(text, subject_keywords, learning_styles,
                                       prerequisites_map)} :
          /\ Called("analyze_comprehensive", "", r.ret)
          /\ prerequisites_map' = r.map
    /\ scores' = <<>>
    /\ UNCHANGED <<subject_keywords, learning_styles>>

Init == InitWith(SessionTexts)

Next ==
    \/ \E t \in SessionTexts : Receive(t)
    \/ DetectSubject
    \/ SuggestLearningStyle
    \/ CalculateReadability
    \/ CalculateEngagementScore
    \/ \E subject \in SessionSubjects : IdentifyPrerequisites(subject)
    \/ AnalyzeComprehensive

\* one analyzer, any sequence of calls on the session's texts
Spec == Init /\ [][Next]_vars

InitSubject == InitWith(SubjectTexts)

\* detect_subject on every text of SubjectTexts
SpecSubject == InitSubject /\ [][DetectSubject]_vars

InitStyle == InitWith(StyleTexts)

\* suggest_learning_style on every text of StyleTexts
SpecStyle == InitStyle /\ [][SuggestLearningStyle]_vars

InitScore == InitWith(ScoreTexts)

NextScore == CalculateReadability \/ CalculateEngagementScore

\* the two scorers on every text of ScoreTexts
SpecScore == InitScore /\ [][NextScore]_vars

InitReport == InitWith(ReportTexts)

\* analyze_comprehensive on every text of ReportTexts
SpecReport == InitReport /\ [][AnalyzeComprehensive]_vars

---------------------------------------------------------------------------
(* What the claims speak of, stated on the text itself *)

\* the total of the first j keywords of the i-th subject as declared
RECURSIVE SubjectTotalUpTo(_, _, _)
SubjectTotalUpTo(tl, i, j) ==
    IF j = 0 THEN 0
    ELSE count(tl, SubjectKeywordsLiteral[i][2][j]) + SubjectTotalUpTo(tl, i, j - 1)

SubjectTotal(t, i) ==
    SubjectTotalUpTo(lower(t), i, Len(SubjectKeywordsLiteral[i][2]))

SubjectMatched(t) ==
    \E i \in 1..Len(SubjectKeywordsLiteral) :
        \E j \in 1..Len(SubjectKeywordsLiteral[i][2]) :
            Contains(lower(t), SubjectKeywordsLiteral[i][2][j])

\* the number of keywords of the i-th style that the text holds
StyleKeywordHits(t, i) ==
    Cardinality({j \in 1..Len(LearningStylesLiteral[i][2]) :
                    Contains(lower(t), LearningStylesLiteral[i][2][j])})

StyleIndex(name) ==
    CHOOSE i \in 1..Len(LearningStylesLiteral) : LearningStylesLiteral[i][1] = name

StyleScore(t, name) ==
    StyleKeywordHits(t, StyleIndex(name))
    + (IF name = "prakticheskij" /\ HasCodeMarker(t) THEN 5 ELSE 0)
    + (IF name = "vizualnyj" /\ HasBulletList(t) THEN 3 ELSE 0)

StyleSignal(t) ==
    \E i \in 1..Len(LearningStylesLiteral) :
        StyleScore(t, LearningStylesLiteral[i][1]) > 0

\* the lines of the text whose first character behind the leading
\* whitespace is a bullet marker
BulletLineCount(t, markers) ==
    LET lines == split_on(t, 10)
    IN  Cardinality({k \in 1..Len(lines) :
            \E j \in 1..Len(lines[k]) :
                /\ lines[k][j] \in markers
                /\ \A m \in 1..(j - 1) : IsSpace(lines[k][m])})

\* what the visual style got on top of its keywords
VisualBonus ==
    (IF HasKey(scores, "vizualnyj") THEN Get(scores, "vizualnyj") ELSE 0)
    - StyleKeywordHits(text, StyleIndex("vizualnyj"))

QuestionMarks(t) == Cardinality({i \in 1..Len(t) : t[i] = 63})

EngagingWordsPresent(t) ==
    Cardinality({i \in 1..Len(engaging_words) :
                    Contains(lower(t), engaging_words[i])})

\* no bullet line, no 'пример', at most 25 words per period-split fragment
PlainText(t) ==
    /\ BulletLineCount(t, {45, 42, 8226}) = 0
    /\ ~Contains(lower(t), <<1087, 1088, 1080, 1084, 1077, 1088>>)
    /\ SumWords(split_on(t, 46), 1) <= 25 * Len(split_on(t, 46))

ReportFields ==
    {"basic_stats", "subject", "keywords", "learning_styles",
     "readability_score", "engagement_score", "prerequisites", "flashcards",
     "notes_template", "difficulty_interpretation"}

Frequency(ws, w) == Cardinality({i \in 1..Len(ws) : ws[i] = w})

FirstOccurrence(ws, w) == Min({i \in 1..Len(ws) : ws[i] = w})

Range(xs) == {xs[i] : i \in 1..Len(xs)}

ExpectedPrerequisites(t, subject) ==
    LET base == IF \E i \in 1..Len(PrerequisitesMapLiteral) :
                      PrerequisitesMapLiteral[i][1] = subject
                THEN PrerequisitesMapLiteral[
                        CHOOSE i \in 1..Len(PrerequisitesMapLiteral) :
                            PrerequisitesMapLiteral[i][1] = subject][2]
                ELSE DefaultPrerequisites
    IN  IF IsAdvanced(t) THEN <<IntermediateItem(subject)>> \o base ELSE base

---------------------------------------------------------------------------
(* The claims *)

\* C1: analyze_comprehensive returns for every text, the empty one, blank
\* ones and ones made of periods included: nothing is raised, the report has
\* its ten fields, and for the empty text they are the defaults (subject
\* 'общий', readability 50, engagement 50, no keyword, no flashcard, the
\* three default styles, average sentence length 0).
C1_ReportAlwaysComplete ==
    op = "analyze_comprehensive" =>
        /\ ~result.raised
        /\ DOMAIN result.value = ReportFields
        /\ text = <<>> =>
              /\ result.value.subject = "obshchij"
              /\ result.value.readability_score = 500
              /\ result.value.engagement_score = 50
              /\ result.value.keywords = <<>>
              /\ result.value.flashcards = <<>>
              /\ result.value.learning_styles = DefaultStyles
              /\ result.value.basic_stats.avg_sentence_length[1] = 0

\* a text of periods only has been analyzed: it has words and no sentence
C1_Witness ==
    /\ op = "analyze_comprehensive"
    /\ text # <<>>
    /\ \A i \in 1..Len(text) : text[i] = 46
    /\ ~result.raised

\* C2: the readability score lies in 0..100 (0..1000 tenths) and the
\* engagement score is an integer of 0..100, whatever the text holds.
C2_ScoresInRange ==
    /\ op = "calculate_readability" =>
          ~result.raised /\ result.value \in 0..1000
    /\ op = "calculate_engagement_score" =>
          ~result.raised /\ result.value \in 0..100

\* the engagement of a text whose markers add up to more than 100
C2_Witness ==
    /\ op = "calculate_engagement_score"
    /\ EngagementRaw(text) > 100
    /\ result.value = 100

\* C3: detect_subject returns 'общий' exactly when no subject keyword is in
\* the lowercased text; otherwise the subject returned has the maximal
\* total, and every subject declared before it has a smaller total.
C3_SubjectIsFirstMaximum ==
    op = "detect_subject" =>
        /\ (result.value = "obshchij") <=> ~SubjectMatched(text)
        /\ SubjectMatched(text) =>
              \E i \in 1..Len(SubjectKeywordsLiteral) :
                  /\ result.value = SubjectKeywordsLiteral[i][1]
                  /\ \A k \in 1..Len(SubjectKeywordsLiteral) :
                        SubjectTotal(text, k) <= SubjectTotal(text, i)
                  /\ \A k \in 1..(i - 1) :
                        SubjectTotal(text, k) < SubjectTotal(text, i)

\* two subjects share the maximal total
C3_Witness ==
    /\ op = "detect_subject"
    /\ \E i, k \in 1..Len(SubjectKeywordsLiteral) :
          /\ i < k
          /\ SubjectTotal(text, i) > 0
          /\ SubjectTotal(text, i) = SubjectTotal(text, k)
          /\ \A m \in 1..Len(SubjectKeywordsLiteral) :
                SubjectTotal(text, m) <= SubjectTotal(text, i)

C5_KeywordsRanked ==
    op = "analyze_comprehensive" /\ ~result.raised =>
        LET K  == result.value.keywords
            ws == Words(text)
        IN  /\ Len(K) <= 10
            /\ \A i, j \in 1..Len(K) : i < j => K[i] # K[j]
            /\ \A i \in 1..Len(K) :
                  K[i] \in Range(ws) /\ K[i] \notin stop_words /\ Len(K[i]) >= 4
            /\ \A i, j \in 1..Len(K) : i < j =>
                  \/ Frequency(ws, K[i]) > Frequency(ws, K[j])
                  \/ /\ Frequency(ws, K[i]) = Frequency(ws, K[j])
                     /\ FirstOccurrence(ws, K[i]) < FirstOccurrence(ws, K[j])
            /\ \A w \in Range(ws) \ Range(K) :
                  (w \notin stop_words /\ Len(w) >= 4) =>
                      \A i \in 1..Len(K) : Frequency(ws, w) <= Frequency(ws, K[i])

\* ten keywords are returned and a qualifying word is left out, the first
\* keyword is not the first word of the text, and two keywords are equally
\* frequent
C5_Witness ==
    /\ op = "analyze_comprehensive"
    /\ ~result.raised
    /\ Len(result.value.keywords) = 10
    /\ \E w \in Range(Words(text)) \ Range(result.value.keywords) :
          w \notin stop_words /\ Len(w) >= 4
    /\ result.value.keywords[1] # Words(text)[1]
    /\ Frequency(Words(text), result.value.keywords[2])
          = Frequency(Words(text), result.value.keywords[3])

\* C6: after any calls the two lexicons are as constructed, and a call of
\* detect_subject, suggest_learning_style, calculate_readability,
\* calculate_engagement_score or analyze_comprehensive returns what the
\* first such call on the same text returned.
C6_LexiconsKeptAndCallsRepeatable ==
    /\ subject_keywords = SubjectKeywordsLiteral
    /\ learning_styles = LearningStylesLiteral
    /\ op \in {"detect_subject", "suggest_learning_style",
               "calculate_readability", "calculate_engagement_score",
               "analyze_comprehensive"} =>
          log[<<op, text, arg>>] = result

\* a text with an advanced marker is analyzed again, after calls on others
C6_Witness ==
    /\ op = "analyze_comprehensive"
    /\ repeat
    /\ IsAdvanced(text)
    /\ \E k \in DOMAIN log : k[2] # text

\* C7: for a text with no bullet line, no 'пример' and at most 25 words per
\* period-split fragment, the engagement score is min(100, 50 + 2*W + 3*Q),
\* W the number of engaging words present, Q the number of '?'.
C7_EngagementFormula ==
    op = "calculate_engagement_score" /\ PlainText(text) =>
        LET v == 50 + 2 * EngagingWordsPresent(text) + 3 * QuestionMarks(text)
        IN  result.value = IF v > 100 THEN 100 ELSE v

\* an engaging word occurs twice in such a text, beside question marks
C7_Witness ==
    /\ op = "calculate_engagement_score"
    /\ PlainText(text)
    /\ QuestionMarks(text) > 0
    /\ \E i \in 1..Len(engaging_words) : count(lower(text), engaging_words[i]) > 1
    /\ result.value < 100

\* C8: the visual style gets its bonus of 3 exactly when more than 3 lines
\* of the text start with '-' or '*' behind optional whitespace, wherever
\* those lines are.
C8_BonusIffMoreThanThreeBulletLines ==
    op = "suggest_learning_style" =>
        (VisualBonus = 3 <=> BulletLineCount(text, {45, 42}) > 3)

\* C9: identify_prerequisites returns the subject's static list, or the
\* default list, with one intermediate-level item in front exactly when the
\* text has an advanced marker, whatever calls came before; so does the
\* report of analyze_comprehensive for the subject it detected.
C9_PrerequisitesNeverAccumulate ==
    /\ op = "identify_prerequisites" =>
          /\ result.value = ExpectedPrerequisites(text, arg)
          /\ Len(result.value) >= 1
    /\ (op = "analyze_comprehensive" /\ ~result.raised) =>
          result.value.prerequisites
              = ExpectedPrerequisites(text, result.value.subject)

\* the prerequisites of a subject of the dict are asked again for a text
\* with an advanced marker
C9_Witness ==
    /\ op = "identify_prerequisites"
    /\ repeat
    /\ IsAdvanced(text)
    /\ HasKey(PrerequisitesMapLiteral, arg)
    /\ prerequisites_map # PrerequisitesMapLiteral

\* C10: a report has min(5, number of keywords) flashcards, the i-th one
\* for the i-th keyword, its back the first non-blank period-split sentence
\* (stripped) that holds the keyword whatever the case.
C10_OneCardPerKeyword ==
    op = "analyze_comprehensive" /\ ~result.raised =>
        LET K     == result.value.keywords
            cards == result.value.flashcards
            S     == StrippedSentences(split_on(text, 46), 1)
        IN  /\ Len(cards) = (IF Len(K) < 5 THEN Len(K) ELSE 5)
            /\ \A i \in 1..Len(cards) :
                  /\ cards[i].keyword = K[i]
                  /\ \E j \in 1..Len(S) :
                        /\ cards[i].back = S[j]
                        /\ Contains(lower(S[j]), lower(K[i]))
                        /\ \A m \in 1..(j - 1) : ~Contains(lower(S[m]), lower(K[i]))

\* five cards for more than five keywords, one of them for a keyword that
\* its sentence holds in another case only
C10_Witness ==
    /\ op = "analyze_comprehensive"
    /\ ~result.raised
    /\ Len(result.value.keywords) > 5
    /\ Len(result.value.flashcards) = 5
    /\ \E i \in 1..5 :
          ~Contains(result.value.flashcards[i].back, result.value.keywords[i])

===========================================================================
